---- MODULE Spec2Model ----
(***************************************************************************)
(* Model of the training controller in bbf/agents/spr_agent.py: the        *)
(* periodic reset engine (reset_weights, jit_reset, copy_params,           *)
(* interpolate_weights), the per-step control flow of _train_step and      *)
(* _training_step_update, and the prefetch generator prefetch_to_device.   *)
(*                                                                         *)
(* Parameter and optimizer trees are tagged nodes:                         *)
(*   kind = "dict"  : a dict / OrderedDict / FrozenDict, items: key -> node *)
(*   kind = "tuple" : a tuple or named tuple, items: 1..n -> node           *)
(*   kind = "leaf"  : an array, val: its (integer) value                    *)
(*   kind = "error" : the exception raised instead of a result             *)
(***************************************************************************)
EXTENDS Integers, Sequences, FiniteSets, TLC

\* ---------------------------------------------------------------- bounds
MaxSteps == 7
MaxSeed == 2
MaxFactor == 1
MaxResetEvery == 2
MaxResetOffset == 1
MaxNoResetsAfter == 6
MaxSize == 3
MaxSource == 3
MaxDeliver == 4
MaxGroup == 3
MaxEvery == 2
MaxStart == 1
MaxDecay == 2
MaxWarmup == 1
MaxLog == 2
MaxAtoms == 3
MaxDz == 2
MaxPoints == 2
MaxSrc == 3
MaxWeight == 2
MaxEnvs == 2
MaxActions == 2
MaxJumps == 2
MaxDist == 2
MaxHistory == 3
MaxAdd == 2
MaxBatch == 2
MaxRatio == 4

\* ---------------------------------------------------------------- trees
Leaf(v) == [kind |-> "leaf", val |-> v, items |-> <<>>]
Dict(f) == [kind |-> "dict", val |-> 0, items |-> f]
Tuple(s) == [kind |-> "tuple", val |-> 0, items |-> s]
Err == [kind |-> "error", val |-> 0, items |-> <<>>]

IsErr(n) == n.kind = "error"

\* The set of key paths of a tree (its key structure, values left out).
RECURSIVE KeyPaths(_)
KeyPaths(n) ==
    IF n.kind \in {"dict", "tuple"}
    THEN {<<>>} \cup UNION {{<<k>> \o p : p \in KeyPaths(n.items[k])} : k \in DOMAIN n.items}
    ELSE {<<>>}

\* An exception raised while building any entry propagates out of the call.
DictOrErr(f) == IF \E k \in DOMAIN f : IsErr(f[k]) THEN Err ELSE Dict(f)

\* jax.tree_util.tree_map over two trees; a structure mismatch raises.
RECURSIVE TreeMap2(_, _, _, _)
TreeMap2(a, b, wa, wb) ==
    IF IsErr(a) \/ IsErr(b) \/ a.kind # b.kind THEN Err
    ELSE IF a.kind = "leaf" THEN Leaf(a.val * wa + b.val * wb)
    ELSE IF DOMAIN a.items # DOMAIN b.items THEN Err
    ELSE LET f == [k \in DOMAIN a.items |-> TreeMap2(a.items[k], b.items[k], wa, wb)]
         IN IF \E k \in DOMAIN f : IsErr(f[k]) THEN Err
            ELSE [kind |-> a.kind, val |-> 0, items |-> f]

\* target[k]: KeyError when the key is missing, an indexing error when target
\* is not a mapping.
GetItem(n, k) ==
    IF n.kind = "dict" /\ k \in DOMAIN n.items THEN n.items[k] ELSE Err

\* copy_params with the membership test inverted.
RECURSIVE copy_params_inverted(_, _, _)
copy_params_inverted(source, target, keys) ==
    IF IsErr(source) \/ IsErr(target) THEN Err
    ELSE IF source.kind = "dict"
    THEN DictOrErr([k \in DOMAIN source.items |->
                      IF k \notin keys THEN source.items[k]
                      ELSE copy_params_inverted(source.items[k], GetItem(target, k), keys)])
    ELSE target

RECURSIVE copy_params(_, _, _)
copy_params(source, target, keys) ==
    IF IsErr(source) \/ IsErr(target) THEN Err
    ELSE IF source.kind = "dict"
    THEN DictOrErr([k \in DOMAIN source.items |->
                      IF k \in keys THEN source.items[k]
                      ELSE copy_params(source.items[k], GetItem(target, k), keys)])
    ELSE target

\* The keys argument of interpolate_weights: None or a tuple of group names.
KeysNone == [none |-> TRUE, keys |-> {}]
Keys(S) == [none |-> FALSE, keys |-> S]

\* interpolate_weights with the two weights exchanged in the combination.
interpolate_weights_swapped(old_params, new_params, keys, old_weight, new_weight) ==
    LET old == GetItem(old_params, "params")
        new == GetItem(new_params, "params")
    IN IF IsErr(old) \/ IsErr(new) \/ old.kind # "dict" THEN Err
       ELSE LET ks == IF keys.none THEN DOMAIN old.items ELSE keys.keys
                combined == [k \in ks \cup DOMAIN old.items |->
                               IF k \in ks
                               THEN TreeMap2(GetItem(old, k), GetItem(new, k),
                                             new_weight, old_weight)
                               ELSE old.items[k]]
            IN IF IsErr(DictOrErr(combined)) THEN Err
               ELSE Dict([p \in {"params"} |-> Dict(combined)])

\* interpolate_weights without the loop that carries over the other groups.
interpolate_weights_dropping(old_params, new_params, keys, old_weight, new_weight) ==
    LET old == GetItem(old_params, "params")
        new == GetItem(new_params, "params")
    IN IF IsErr(old) \/ IsErr(new) \/ old.kind # "dict" THEN Err
       ELSE LET ks == IF keys.none THEN DOMAIN old.items ELSE keys.keys
                combined == [k \in ks |->
                               TreeMap2(GetItem(old, k), GetItem(new, k),
                                        old_weight, new_weight)]
            IN IF IsErr(DictOrErr(combined)) THEN Err
               ELSE Dict([p \in {"params"} |-> Dict(combined)])

interpolate_weights(old_params, new_params, keys, old_weight, new_weight) ==
    LET old == GetItem(old_params, "params")
        new == GetItem(new_params, "params")
    IN IF IsErr(old) \/ IsErr(new) \/ old.kind # "dict" THEN Err
       ELSE LET ks == IF keys.none THEN DOMAIN old.items ELSE keys.keys
                combined == [k \in ks \cup DOMAIN old.items |->
                               IF k \in ks
                               THEN TreeMap2(GetItem(old, k), GetItem(new, k),
                                             old_weight, new_weight)
                               ELSE old.items[k]]
            IN IF IsErr(DictOrErr(combined)) THEN Err
               ELSE Dict([p \in {"params"} |-> Dict(combined)])

\* ---------------------------------------------------------------- schedules
\* A scheduled value is exp(num / den) (kind "exp") or 1 - exp(num / den) (kind
\* "one_minus_exp"), the quotient num / den in lowest terms with den > 0; its
\* logarithm is the rational num / den.
RECURSIVE GCD(_, _)
GCD(a, b) == IF b = 0 THEN a ELSE GCD(b, a % b)
Abs(x) == IF x < 0 THEN -x ELSE x

Exp(num, den) ==
    LET g == GCD(Abs(num), den)
    IN [kind |-> "exp", num |-> num \div g, den |-> den \div g]

\* 1 - v
OneMinus(v) ==
    [v EXCEPT !.kind = IF @ = "exp" THEN "one_minus_exp" ELSE "exp"]

\* np.log of a value exp(num / den)
Log(v) == [num |-> v.num, den |-> v.den]

\* np.clip
clip(x, lo, hi) == IF x < lo THEN lo ELSE IF x > hi THEN hi ELSE x

\* The schedule counting its steps from 0 instead of from warmup_steps.
exponential_decay_scheduler_no_warmup(decay_period, warmup_steps, initial_value, final_value, reverse, step) ==
    LET initial == IF reverse THEN OneMinus(initial_value) ELSE initial_value
        final == IF reverse THEN OneMinus(final_value) ELSE final_value
        start == Log(initial)
        end == Log(final)
    IN IF decay_period = 0
       THEN IF step < warmup_steps THEN initial ELSE final
       ELSE LET steps_left == decay_period - step
                bonus == clip(steps_left, 0, decay_period)
                new_value ==
                    Exp(bonus * (start.num * end.den - end.num * start.den)
                            + end.num * start.den * decay_period,
                        start.den * end.den * decay_period)
            IN IF reverse THEN OneMinus(new_value) ELSE new_value

\* exponential_decay_scheduler(...)(step).  bonus is the numerator of the
\* clipped fraction steps_left / decay_period, new_value the exponential of
\* bonus / decay_period * (start - end) + end.
exponential_decay_scheduler(decay_period, warmup_steps, initial_value, final_value, reverse, step) ==
    LET initial == IF reverse THEN OneMinus(initial_value) ELSE initial_value
        final == IF reverse THEN OneMinus(final_value) ELSE final_value
        start == Log(initial)
        end == Log(final)
    IN IF decay_period = 0
       THEN IF step < warmup_steps THEN initial ELSE final
       ELSE LET steps_left == decay_period + warmup_steps - step
                bonus == clip(steps_left, 0, decay_period)
                new_value ==
                    Exp(bonus * (start.num * end.den - end.num * start.den)
                            + end.num * start.den * decay_period,
                        start.den * end.den * decay_period)
            IN IF reverse THEN OneMinus(new_value) ELSE new_value

\* ------------------------------------------------- distributional targets
\* Vectors are sequences of integers.  Support points are whole numbers of some
\* unit, weights whole numbers of probability mass; a projected distribution is
\* the vector num of numerators over the common denominator den.
RECURSIVE SumSeq(_)
SumSeq(s) == IF s = <<>> THEN 0 ELSE Head(s) + SumSeq(Tail(s))

\* project_distribution without clipping the supports to [v_min, v_max].
project_distribution_unclipped(supports, weights, target_support) ==
    LET v_min == target_support[1]
        v_max == target_support[Len(target_support)]
        num_dims == Len(target_support)
        span == v_max - v_min
        clipped_support == supports
        clipped_quotient(n, j) ==
            clip(span - Abs(clipped_support[j] - target_support[n]) * (num_dims - 1),
                 0, span)
    IN [num |-> [n \in 1..num_dims |->
                    SumSeq([j \in 1..Len(supports) |->
                               clipped_quotient(n, j) * weights[j]])],
        den |-> span]

\* project_distribution with delta_z the whole width v_max - v_min.
project_distribution_wide(supports, weights, target_support) ==
    LET v_min == target_support[1]
        v_max == target_support[Len(target_support)]
        num_dims == Len(target_support)
        span == v_max - v_min
        clipped_support == [j \in 1..Len(supports) |-> clip(supports[j], v_min, v_max)]
        clipped_quotient(n, j) ==
            clip(span - Abs(clipped_support[j] - target_support[n]), 0, span)
    IN [num |-> [n \in 1..num_dims |->
                    SumSeq([j \in 1..Len(supports) |->
                               clipped_quotient(n, j) * weights[j]])],
        den |-> span]

\* project_distribution.  With delta_z = span / (num_dims - 1) the quotient
\* 1 - numerator / delta_z is (span - numerator * (num_dims - 1)) / span;
\* clipped_quotient is its numerator clipped to [0, span], that is the quotient
\* clipped to [0, 1].
project_distribution(supports, weights, target_support) ==
    LET v_min == target_support[1]
        v_max == target_support[Len(target_support)]
        num_dims == Len(target_support)
        span == v_max - v_min
        clipped_support == [j \in 1..Len(supports) |-> clip(supports[j], v_min, v_max)]
        clipped_quotient(n, j) ==
            clip(span - Abs(clipped_support[j] - target_support[n]) * (num_dims - 1),
                 0, span)
    IN [num |-> [n \in 1..num_dims |->
                    SumSeq([j \in 1..Len(supports) |->
                               clipped_quotient(n, j) * weights[j]])],
        den |-> span]

\* rewards + gamma_with_terminal * support, for cumulative_gamma the quotient
\* num / den, in units of 1 / den of the support's unit.
shifted_support(rewards, terminals, support, cumulative_gamma) ==
    LET gamma_with_terminal == cumulative_gamma.num * (1 - terminals)
    IN [j \in 1..Len(support) |->
            rewards * cumulative_gamma.den + gamma_with_terminal * support[j]]

\* target_output with the discount left in place on terminal transitions.
target_output_no_terminal(probabilities, next_qt_argmax, rewards, terminals, support, cumulative_gamma) ==
    LET next_probabilities == probabilities[next_qt_argmax]
        target_support == shifted_support(rewards, 0, support, cumulative_gamma)
    IN project_distribution(target_support, next_probabilities,
                            [j \in 1..Len(support) |-> support[j] * cumulative_gamma.den])

\* target_output: probabilities is the target network's distribution of every
\* action, next_qt_argmax the action policy_info returns.  The support is
\* brought to the shifted support's unit before the projection.
target_output(probabilities, next_qt_argmax, rewards, terminals, support, cumulative_gamma) ==
    LET next_probabilities == probabilities[next_qt_argmax]
        target_support == shifted_support(rewards, terminals, support, cumulative_gamma)
    IN project_distribution(target_support, next_probabilities,
                            [j \in 1..Len(support) |-> support[j] * cumulative_gamma.den])

\* ------------------------------------------------------------------ SPR loss
\* The SPR loss of one transition.  spr_error[t] is the squared distance
\* between the normalized predicted and target latents of time step t, summed
\* over the latent axes; same_traj_mask has one entry more than there are time
\* steps and loses its first entry.  The result is the quotient num / den:
\* the mean over the time axis of the masked errors, times one half.
spr_loss(spr_error, same_traj_mask) ==
    LET mask == Tail(same_traj_mask)
        masked == [t \in 1..Len(spr_error) |-> spr_error[t] * mask[t]]
    IN [num |-> SumSeq(masked), den |-> 2 * Len(spr_error)]

\* --------------------------------------------------------- action selection
\* jnp.argmax: the first index of the largest entry.
argmax(logits) ==
    CHOOSE a \in DOMAIN logits :
        /\ \A b \in DOMAIN logits : logits[b] <= logits[a]
        /\ \A b \in DOMAIN logits : b < a => logits[b] < logits[a]

\* The jitted select_action: logits and samples are what the policy head
\* returns for each observation (the samples drawn from the categorical
\* distribution of the logits).
select_action(logits, samples, eval_mode) ==
    [n \in DOMAIN logits |-> IF eval_mode THEN argmax(logits[n]) ELSE samples[n]]

\* BBFAgent.select_action: randint is the draw of jax.random.randint over the
\* action space, one action per observation.
BBFAgent_select_action(eval_mode, steps, min_replay_history, randint, logits, samples) ==
    IF ~eval_mode /\ steps < min_replay_history
    THEN randint
    ELSE select_action(logits, samples, FALSE)

\* ------------------------------------------------------- network, optimizer
ModuleGroups == {"encoder", "transition_model", "head", "policy"}
Groups == ModuleGroups \cup {"_log_alpha"}
Seeds == 1..MaxSeed

GroupIdx(g) ==
    CASE g = "encoder" -> 0
      [] g = "transition_model" -> 1
      [] g = "head" -> 2
      [] g = "policy" -> 3
      [] OTHER -> 4

\* network_def.init(rng, ...): a parameter tree whose structure is fixed by the
\* architecture and whose values are a function of the random key.
NetInit(seed) ==
    Dict([p \in {"params"} |->
        Dict([g \in Groups |->
            IF g \in ModuleGroups
            THEN Dict([l \in {"kernel", "bias"} |->
                        Leaf(seed * 16 + GroupIdx(g) * 2 + (IF l = "bias" THEN 1 ELSE 0))])
            ELSE Leaf(seed * 16 + GroupIdx(g) * 2)])])

\* jax.random.split(rng, 2): two keys, different from each other.
SplitFirst(rng) == 2 * rng
\* The target key taken to be the online key.
SplitSecondSame(rng) == 2 * rng
SplitSecond(rng) == 2 * rng + 1

\* The masks of the four chained sub-optimizers.
encoder_keys == {"encoder", "transition_model"}
head_keys == {"projection", "head", "predictor"}
policy_key == {"policy_projection", "policy", "predict_policy"}
alpha_key == {"_log_alpha"}
Masks == <<encoder_keys, head_keys, policy_key, alpha_key>>

MaskedNode == Tuple(<<>>)

\* State of one masked sub-optimizer: the named tuple MaskedState(inner_state),
\* whose inner_state is the tuple of states of the wrapped chain. For the three
\* AdamW chains it holds the step count and the first-moment tree (masked-out
\* groups are MaskedNode); for plain SGD it holds no accumulator.
SubOptInit(i, params) ==
    IF i = 4 THEN [inner_state |-> Tuple(<<>>)]
    ELSE [inner_state |->
            Tuple(<<Leaf(0),
                    Dict([p \in {"params"} |->
                        Dict([g \in DOMAIN params.items["params"].items |->
                            IF g \in Masks[i]
                            THEN TreeMap2(params.items["params"].items[g],
                                          params.items["params"].items[g], 0, 0)
                            ELSE MaskedNode])])>>)]

\* optimizer.init(params) of the chain of four masked optimizers.
OptimizerInit(params) == [i \in 1..4 |-> SubOptInit(i, params)]

OptIndex(g) == CHOOSE i \in 1..4 : g \in Masks[i]

\* The accumulator (first moment) the optimizer state holds for group g.
Moment(opt_state, g) ==
    opt_state[OptIndex(g)].inner_state.items[2].items["params"].items[g]

RECURSIVE AddLeaves(_, _)
AddLeaves(t, c) ==
    IF t.kind = "leaf" THEN Leaf(t.val + c)
    ELSE [kind |-> t.kind, val |-> 0,
          items |-> [k \in DOMAIN t.items |-> AddLeaves(t.items[k], c)]]

\* optimizer.update followed by optax.apply_updates, for a gradient that is
\* grad at every leaf: each AdamW chain advances its count, adds the gradient
\* to the moments of its own groups and moves those groups by the new moment;
\* SGD moves _log_alpha by the gradient.
OptimizerUpdate(grad, opt_state, params) ==
    LET new_state == [i \in 1..4 |->
            IF i = 4 THEN opt_state[i]
            ELSE LET inner == opt_state[i].inner_state
                     mu == inner.items[2].items["params"]
                 IN [inner_state |->
                       Tuple(<<Leaf(inner.items[1].val + 1),
                               Dict([p \in {"params"} |->
                                   Dict([g \in DOMAIN mu.items |->
                                       IF g \in Masks[i]
                                       THEN AddLeaves(mu.items[g], grad)
                                       ELSE mu.items[g]])])>>)]]
        old == params.items["params"]
        new_params == Dict([p \in {"params"} |->
            Dict([g \in DOMAIN old.items |->
                IF g \in alpha_key THEN AddLeaves(old.items[g], grad)
                ELSE TreeMap2(old.items[g], Moment(new_state, g), 1, 1)])])
    IN [online_params |-> new_params, optimizer_state |-> new_state]

\* namedtuple._asdict() and namedtuple._replace(**d) on a MaskedState.
AsDict(ms) == Dict([f \in {"inner_state"} |-> ms.inner_state])
Replace(ms, d) == [inner_state |-> d.items["inner_state"]]

keys_to_copy == {"encoder", "transition_model", "_log_alpha"}

jit_reset(online_params, target_network_params, optimizer_state, rng, reset_target, shrink_perturb_keys, shrink_factor, perturb_factor, keys) ==
    LET online_rng == SplitFirst(rng)
        target_rng == SplitSecond(rng)
        random_params == NetInit(online_rng)
        target_random_params == NetInit(target_rng)
        online1 == IF shrink_perturb_keys # {}
                   THEN interpolate_weights(online_params, random_params,
                                            Keys(shrink_perturb_keys),
                                            shrink_factor, perturb_factor)
                   ELSE online_params
        online2 == copy_params(online1, random_params, keys)
        optim_state == OptimizerInit(online2)
        updated == [i \in 1..4 |->
                      LET optim_to_copy == copy_params(AsDict(optimizer_state[i]),
                                                       AsDict(optim_state[i]), keys)
                      IN Replace(optim_state[i], optim_to_copy)]
        target1 == IF shrink_perturb_keys # {}
                   THEN interpolate_weights(target_network_params, target_random_params,
                                            Keys(shrink_perturb_keys),
                                            shrink_factor, perturb_factor)
                   ELSE target_network_params
        target2 == IF reset_target
                   THEN copy_params(target1, target_random_params, keys)
                   ELSE target_network_params
    IN [online_params |-> online2,
        target_network_params |-> target2,
        optimizer_state |-> updated,
        random_params |-> random_params]

\* ------------------------------------------------------------ prefetching
\* A source iterator: next is the element it produces next (elements are
\* numbered 1, 2, ...), left the number of elements it still holds, -1 for a
\* generator that never ends (_replay_sampler_generator).
Unbounded == -1
Exhausted(src) == src.left = 0
Advance(src) ==
    [next |-> src.next + 1, left |-> IF src.left = Unbounded THEN Unbounded ELSE src.left - 1]

\* The generator object of prefetch_to_device(iterator, size).  pc is the place
\* its frame is suspended or running at: "none" (no generator), "new" (created,
\* body not yet entered), "enqueue" (inside enqueue(n), todo elements still to
\* take), "test" (at `while queue`), "yield" (suspended at yield), "done".
NoPrefetcher ==
    [pc |-> "none", queue |-> <<>>, todo |-> 0, size |-> 0, out |-> 0,
     src |-> [next |-> 1, left |-> 0]]
prefetch_to_device(iterator, size) ==
    [pc |-> "new", queue |-> <<>>, todo |-> 0, size |-> size, out |-> 0,
     src |-> iterator]

\* enqueue(1) after each yield.
EnqueueAfterYield == 1

\* Resuming with enqueue(size) after a yield as well.
GenResumeRefill(g) ==
    IF g.pc = "new" THEN [g EXCEPT !.pc = "enqueue", !.todo = g.size]
    ELSE IF g.pc = "yield" THEN [g EXCEPT !.pc = "enqueue", !.todo = g.size]
    ELSE g

\* next(generator) resumes the frame: the first call enters the body and runs
\* enqueue(size), a later call continues after the yield with enqueue(1).
GenResume(g) ==
    IF g.pc = "new" THEN [g EXCEPT !.pc = "enqueue", !.todo = g.size]
    ELSE IF g.pc = "yield" THEN [g EXCEPT !.pc = "enqueue", !.todo = EnqueueAfterYield]
    ELSE g

\* The running frame with queue.pop() for queue.popleft().
GenStepPopRight(g) ==
    IF g.pc = "enqueue"
    THEN IF g.todo > 0 /\ ~Exhausted(g.src)
         THEN [g EXCEPT !.queue = Append(g.queue, g.src.next),
                        !.src = Advance(g.src),
                        !.todo = g.todo - 1]
         ELSE [g EXCEPT !.pc = "test", !.todo = 0]
    ELSE IF g.pc = "test"
    THEN IF g.queue # <<>>
         THEN [g EXCEPT !.pc = "yield", !.out = g.queue[Len(g.queue)],
                        !.queue = SubSeq(g.queue, 1, Len(g.queue) - 1)]
         ELSE [g EXCEPT !.pc = "done"]
    ELSE g

\* One step of the running frame.
GenStep(g) ==
    IF g.pc = "enqueue"
    THEN IF g.todo > 0 /\ ~Exhausted(g.src)
         THEN [g EXCEPT !.queue = Append(g.queue, g.src.next),
                        !.src = Advance(g.src),
                        !.todo = g.todo - 1]
         ELSE [g EXCEPT !.pc = "test", !.todo = 0]
    ELSE IF g.pc = "test"
    THEN IF g.queue # <<>>
         THEN [g EXCEPT !.pc = "yield", !.out = Head(g.queue), !.queue = Tail(g.queue)]
         ELSE [g EXCEPT !.pc = "done"]
    ELSE g

RECURSIVE GenRun(_)
GenRun(g) == IF g.pc \in {"enqueue", "test"} THEN GenRun(GenStep(g)) ELSE g

\* next(generator), run to the next yield or to StopIteration.
GenNext(g) == GenRun(GenResume(g))

\* ------------------------------------------------------------------ state
VARIABLES
    cfg,                    \* constructor arguments, fixed for a run
    training_steps, next_reset, cumulative_resets, grad_steps, cycle_grad_steps,
    online_params, target_network_params, optimizer_state, random_params,
    add_count,              \* self._replay.add_count
    prefetcher,             \* self.prefetcher
    replay_elements,        \* self.replay_elements, 0 while the attribute is unset
    delivered,              \* the batches the prefetcher has yielded, in order
    priorities,             \* batch whose indices the last set_priority wrote, 0 if none
    priority_values,        \* the priorities the last set_priority wrote
    priority_indices,       \* the replay indices the last set_priority was given
    train_log,              \* the calls of train made so far, in order
    pc,                     \* position inside step()/_train_step
    i,                      \* index of the update loop of _train_step
    reset_log,              \* the messages reset_weights has logged, in order
    fn_in, fn_out           \* arguments and result of a function called on its own

vars == <<cfg, training_steps, next_reset, cumulative_resets, grad_steps,
          cycle_grad_steps, online_params, target_network_params, optimizer_state,
          random_params, add_count, prefetcher, replay_elements, delivered,
          priorities, priority_values, priority_indices, train_log, pc, i,
          reset_log, fn_in, fn_out>>

params_vars == <<online_params, target_network_params, optimizer_state, random_params>>
reset_vars == <<next_reset, cumulative_resets, reset_log>>
replay_vars == <<prefetcher, replay_elements, delivered, priorities, priority_values,
                 priority_indices, train_log>>
fn_vars == <<fn_in, fn_out>>
agent_vars == <<cfg, training_steps, next_reset, cumulative_resets, grad_steps,
                cycle_grad_steps, online_params, target_network_params,
                optimizer_state, random_params, add_count, replay_elements,
                priorities, priority_values, priority_indices, train_log, pc, i,
                reset_log>>
NoCall == [fn |-> "none"]

ResetEveryVals == (-1..0) \cup (1..MaxResetEvery)
ShrinkPerturbVals == {{}, {"encoder", "head"}}

\* Constructor arguments of the runs explored.  With resets disabled
\* (reset_every <= 0) the other reset options keep one value, and the
\* shrink-and-perturb factors vary only when shrink_perturb_keys names a group.
Configs ==
    {c \in [reset_every : ResetEveryVals,
            reset_offset : 0..MaxResetOffset,
            no_resets_after : -1..MaxNoResetsAfter,
            reset_target : BOOLEAN,
            shrink_perturb_keys : ShrinkPerturbVals,
            shrink_factor : 0..MaxFactor,
            perturb_factor : 0..MaxFactor,
            n_envs : {1},
            batch_size : {1},
            batches_to_group : {1},
            num_updates_per_train_step : {1},
            update_period : {1},
            min_replay_history : {2},
            target_update_period : {1},
            target_update_tau : {1}] :
        /\ c.reset_every <= 0 =>
              /\ c.reset_offset = 1 /\ c.no_resets_after = -1 /\ c.reset_target
              /\ c.shrink_perturb_keys = {}
        /\ c.shrink_perturb_keys = {} => c.shrink_factor = 1 /\ c.perturb_factor = 1}

\* BBFAgent.__init__ with _build_networks_and_optimizer.
AgentInit(c, seed) ==
    /\ cfg = c
    /\ training_steps = 0
    /\ cumulative_resets = 0
    /\ reset_log = <<>>
    /\ next_reset = c.reset_every + c.reset_offset
    /\ grad_steps = 0
    /\ cycle_grad_steps = 0
    /\ online_params = NetInit(seed)
    /\ optimizer_state = OptimizerInit(NetInit(seed))
    /\ target_network_params = NetInit(seed)
    /\ random_params = NetInit(seed)
    /\ add_count = 0
    /\ replay_elements = 0
    /\ delivered = <<>>
    /\ priorities = 0
    /\ priority_values = <<>>
    /\ priority_indices = <<>>
    /\ train_log = <<>>
    /\ pc = "idle"
    /\ i = 0

Init ==
    /\ \E c \in Configs : AgentInit(c, 1)
    /\ prefetcher = NoPrefetcher
    /\ fn_in = NoCall
    /\ fn_out = NoCall

\* ---------------------------------------------------------------- training
\* The gradient of the loss on sub-batch k of a sampled batch (the same value at
\* every leaf): a function of the sampled data, which differs from batch to
\* batch and from sub-batch to sub-batch.
Gradient(batch, k) == 1 + ((batch + k) % 2)

\* train_one_batch interpolating the target towards the online parameters of
\* before the optimizer update.
train_one_batch_stale(state, grad, target_update_tau, target_update_every) ==
    LET upd == OptimizerUpdate(grad, state.optimizer_state, state.online_params)
        target_params ==
            IF state.step % target_update_every = 0
            THEN interpolate_weights(state.target_params, state.online_params, KeysNone,
                                     1 - target_update_tau, target_update_tau)
            ELSE state.target_params
    IN [online_params |-> upd.online_params,
        target_params |-> target_params,
        optimizer_state |-> upd.optimizer_state,
        step |-> state.step + 1]

\* train_one_batch: one gradient step on one sub-batch, then the target update.
train_one_batch(state, grad, target_update_tau, target_update_every) ==
    LET upd == OptimizerUpdate(grad, state.optimizer_state, state.online_params)
        target_params ==
            IF state.step % target_update_every = 0
            THEN interpolate_weights(state.target_params, upd.online_params, KeysNone,
                                     1 - target_update_tau, target_update_tau)
            ELSE state.target_params
    IN [online_params |-> upd.online_params,
        target_params |-> target_params,
        optimizer_state |-> upd.optimizer_state,
        step |-> state.step + 1]

\* A scan that hands every sub-batch the step counter of the first one.
RECURSIVE scan_same_step(_, _, _, _)
scan_same_step(state, grads, target_update_tau, target_update_every) ==
    IF grads = <<>> THEN state
    ELSE scan_same_step([train_one_batch(state, Head(grads), target_update_tau,
                                         target_update_every)
                            EXCEPT !.step = state.step],
                        Tail(grads), target_update_tau, target_update_every)

\* jax.lax.scan(train_one_batch, init_state, inputs) over the sub-batches.
RECURSIVE scan(_, _, _, _)
scan(state, grads, target_update_tau, target_update_every) ==
    IF grads = <<>> THEN state
    ELSE scan(train_one_batch(state, Head(grads), target_update_tau, target_update_every),
              Tail(grads), target_update_tau, target_update_every)

train(online, target, opt_state, grads, target_update_tau, target_update_every, step) ==
    scan([online_params |-> online, target_params |-> target,
          optimizer_state |-> opt_state, step |-> step],
         grads, target_update_tau, target_update_every)

\* aux_losses["DQNLoss"] of sub-batch k of a sampled batch: the mean of the
\* cross-entropy losses of its transitions, never negative.  Losses are counted
\* in units of 1e-10, priorities in units of 1e-5 (the units' square root).
DQNLoss(batch, k) == LET r == (batch + k) % 3 IN r * (r + 2)

\* The 1e-10 added to the loss, in units of 1e-10.
Epsilon == 1

\* np.sqrt, rounded down to a whole number of units.
sqrt(x) == CHOOSE r \in 0..x : r * r <= x /\ x < (r + 1) * (r + 1)

\* The priority without the added 1e-10.
PriorityOfNoEpsilon(dqn_loss) == sqrt(dqn_loss)

\* priorities = np.sqrt(dqn_loss + 1e-10)
PriorityOf(dqn_loss) == sqrt(dqn_loss + Epsilon)

\* ----------------------------------------------------------------- actions
\* The environment loop stores the transition of the step (replay add) before
\* it calls step().
LogTransition ==
    /\ pc = "idle"
    /\ training_steps < MaxSteps
    /\ add_count' = add_count + 1
    /\ pc' = "train"
    /\ UNCHANGED <<fn_vars, cfg, training_steps, reset_vars, grad_steps, cycle_grad_steps,
                   params_vars, replay_vars, i>>

_replay_sampler_generator == [next |-> 1, left |-> Unbounded]

PrefetchSize == 2

initialize_prefetcher == prefetch_to_device(_replay_sampler_generator, PrefetchSize)

\* set_replay_settings replaces min_replay_history by min_replay_history /
\* n_envs, a true division; add_count is compared with the quotient.
AtMinReplayHistory == add_count * cfg.n_envs = cfg.min_replay_history
PastMinReplayHistory == add_count * cfg.n_envs > cfg.min_replay_history

\* A sampler that asks for one sub-batch only.
SampleSizeUngrouped == cfg.batch_size

\* The number of transitions the sampler asks the replay store for.
SampleSize == cfg.batch_size * cfg.batches_to_group

\* train: the number of sub-batches the sampled group is cut into.
num_batches(n, batch_size) == n \div batch_size

\* _train_step up to the update loop.
TrainStepBegin ==
    /\ pc = "train"
    /\ prefetcher' = IF AtMinReplayHistory
                     THEN initialize_prefetcher ELSE prefetcher
    /\ pc' = "update"
    /\ i' = 0
    /\ UNCHANGED <<fn_vars, cfg, training_steps, reset_vars, grad_steps, cycle_grad_steps,
                   params_vars, add_count, replay_elements, delivered, priorities,
                   priority_values, priority_indices, train_log>>

InUpdateLoop ==
    /\ PastMinReplayHistory
    /\ training_steps % cfg.update_period = 0
    /\ i < cfg.num_updates_per_train_step

\* One iteration of the update loop: _training_step_update.
TrainingStepUpdate ==
    /\ pc = "update"
    /\ InUpdateLoop
    /\ IF prefetcher.pc = "none"
       THEN \* self.prefetcher does not exist: AttributeError out of step()
            /\ pc' = "crashed"
            /\ UNCHANGED <<fn_vars, cfg, training_steps, reset_vars, grad_steps, cycle_grad_steps,
                           params_vars, add_count, replay_vars, i>>
       ELSE LET g1 == IF replay_elements = 0 THEN GenNext(prefetcher) ELSE prefetcher
                batch == IF replay_elements = 0 THEN g1.out ELSE replay_elements
                indices == batch
                K == num_batches(SampleSize, cfg.batch_size)
                grads == [k \in 1..K |-> Gradient(batch, k)]
                res == train(online_params, target_network_params, optimizer_state,
                             grads, cfg.target_update_tau, cfg.target_update_period,
                             grad_steps)
                g2 == GenNext(g1)
            IN /\ grad_steps' = grad_steps + cfg.batches_to_group
               /\ cycle_grad_steps' = cycle_grad_steps + cfg.batches_to_group
               /\ prefetcher' = g2
               /\ replay_elements' = g2.out
               /\ delivered' = delivered
                               \o (IF replay_elements = 0 THEN <<g1.out>> ELSE <<>>)
                               \o <<g2.out>>
               /\ priorities' = indices
               /\ priority_values' = [k \in 1..K |-> PriorityOf(DQNLoss(batch, k))]
               /\ priority_indices' = [j \in 1..SampleSize |-> <<indices, j>>]
               /\ train_log' = Append(train_log,
                                      [step |-> grad_steps, final |-> res.step,
                                       num_batches |-> K, sampled |-> SampleSize])
               /\ target_network_params' = res.target_params
               /\ online_params' = res.online_params
               /\ optimizer_state' = res.optimizer_state
               /\ i' = i + 1
               /\ UNCHANGED <<fn_vars, cfg, training_steps, reset_vars, random_params,
                              add_count, pc>>

\* The reset check with >= for >.
ResetDueInclusive == cfg.reset_every > 0 /\ training_steps >= next_reset

ResetDue == cfg.reset_every > 0 /\ training_steps > next_reset

\* The reset check of _train_step when no reset is due.
NoReset ==
    /\ pc = "update"
    /\ ~InUpdateLoop
    /\ ~ResetDue
    /\ pc' = "end"
    /\ UNCHANGED <<fn_vars, cfg, training_steps, reset_vars, grad_steps, cycle_grad_steps,
                   params_vars, add_count, replay_vars, i>>

\* next_reset advanced from its old value instead of from training_steps.
ResetCountersDrift ==
    /\ cumulative_resets' = cumulative_resets + 1
    /\ next_reset' = cfg.reset_every + next_reset

\* next_reset set one step too far.
ResetCountersLate ==
    /\ cumulative_resets' = cumulative_resets + 1
    /\ next_reset' = cfg.reset_every + training_steps + 1

\* The first statements of reset_weights, run before the skip test.
ResetCounters ==
    /\ cumulative_resets' = cumulative_resets + 1
    /\ next_reset' = cfg.reset_every + training_steps

\* The skip test with == for >: only the first reset past the budget is skipped.
ResetSkipFirstOnly ==
    cfg.reset_every + training_steps = cfg.no_resets_after + cfg.reset_offset + 1

\* self.next_reset > self.no_resets_after + self.reset_offset, with the
\* next_reset just assigned.
ResetSkip == cfg.reset_every + training_steps > cfg.no_resets_after + cfg.reset_offset

\* The message reset_weights logs: "Resetting weights at step ..." when it
\* resets, "Not resetting at step ..." when it returns early.
LogReset(applied) ==
    reset_log' = Append(reset_log, [step |-> training_steps, applied |-> applied])

\* reset_weights, returning early ("Not resetting at step ...").
ResetSkipped ==
    /\ pc = "update"
    /\ ~InUpdateLoop
    /\ ResetDue
    /\ ResetCounters
    /\ ResetSkip
    /\ LogReset(FALSE)
    /\ pc' = "end"
    /\ UNCHANGED <<fn_vars, cfg, training_steps, grad_steps, cycle_grad_steps,
                   params_vars, add_count, replay_vars, i>>

\* reset_weights, resetting the weights through jit_reset.
ResetApplied ==
    /\ pc = "update"
    /\ ~InUpdateLoop
    /\ ResetDue
    /\ ResetCounters
    /\ ~ResetSkip
    /\ LogReset(TRUE)
    /\ \E reset_rng \in Seeds :
         LET r == jit_reset(online_params, target_network_params, optimizer_state,
                            reset_rng, cfg.reset_target, cfg.shrink_perturb_keys,
                            cfg.shrink_factor, cfg.perturb_factor, keys_to_copy)
         IN /\ online_params' = r.online_params
            /\ target_network_params' = r.target_network_params
            /\ optimizer_state' = r.optimizer_state
            /\ random_params' = r.random_params
    /\ cycle_grad_steps' = 0
    /\ pc' = "end"
    /\ UNCHANGED <<fn_vars, cfg, training_steps, grad_steps, add_count, replay_vars, i>>

\* The end of _train_step.
TrainStepEnd ==
    /\ pc = "end"
    /\ training_steps' = training_steps + 1
    /\ pc' = "idle"
    /\ UNCHANGED <<fn_vars, cfg, reset_vars, grad_steps, cycle_grad_steps,
                   params_vars, add_count, replay_vars, i>>

Next ==
    \/ LogTransition
    \/ TrainStepBegin
    \/ TrainingStepUpdate
    \/ NoReset
    \/ ResetSkipped
    \/ ResetApplied
    \/ TrainStepEnd

Spec == Init /\ [][Next]_vars

\* ------------------------------------------ prefetch_to_device on its own
DefaultConfig == CHOOSE c \in Configs : c.reset_every = -1

InitPrefetch ==
    /\ AgentInit(DefaultConfig, 1)
    /\ \E size \in 1..MaxSize, left \in {Unbounded} \cup (0..MaxSource) :
          prefetcher = prefetch_to_device([next |-> 1, left |-> left], size)
    /\ fn_in = NoCall
    /\ fn_out = NoCall

\* The consumer calls next() on the generator.
PrefetchNextCall ==
    /\ prefetcher.pc \in {"new", "yield"}
    /\ Len(delivered) < MaxDeliver
    /\ prefetcher' = GenResume(prefetcher)
    /\ UNCHANGED <<agent_vars, delivered, fn_vars>>

\* enqueue takes one more element from the iterator.
PrefetchEnqueue ==
    /\ prefetcher.pc = "enqueue"
    /\ prefetcher.todo > 0 /\ ~Exhausted(prefetcher.src)
    /\ prefetcher' = GenStep(prefetcher)
    /\ UNCHANGED <<agent_vars, delivered, fn_vars>>

\* enqueue returns: n elements taken or the iterator exhausted.
PrefetchEnqueueEnd ==
    /\ prefetcher.pc = "enqueue"
    /\ ~(prefetcher.todo > 0 /\ ~Exhausted(prefetcher.src))
    /\ prefetcher' = GenStep(prefetcher)
    /\ UNCHANGED <<agent_vars, delivered, fn_vars>>

\* `while queue` holds: yield queue.popleft().
PrefetchYield ==
    /\ prefetcher.pc = "test"
    /\ prefetcher.queue # <<>>
    /\ prefetcher' = GenStep(prefetcher)
    /\ delivered' = Append(delivered, prefetcher'.out)
    /\ UNCHANGED <<agent_vars, fn_vars>>

\* `while queue` fails: the generator returns (StopIteration).
PrefetchStop ==
    /\ prefetcher.pc = "test"
    /\ prefetcher.queue = <<>>
    /\ prefetcher' = GenStep(prefetcher)
    /\ UNCHANGED <<agent_vars, delivered, fn_vars>>

NextPrefetch ==
    \/ PrefetchNextCall
    \/ PrefetchEnqueue
    \/ PrefetchEnqueueEnd
    \/ PrefetchYield
    \/ PrefetchStop

SpecPrefetch == InitPrefetch /\ [][NextPrefetch]_vars

\* ------------------------------------------ interpolate_weights on its own
InterpKeys == {KeysNone, Keys({}), Keys({"encoder"}), Keys({"encoder", "head"}),
               Keys({"head", "_log_alpha"})}

InitInterp ==
    /\ AgentInit(DefaultConfig, 1)
    /\ prefetcher = NoPrefetcher
    /\ \E so \in Seeds, sn \in Seeds, keys \in InterpKeys,
          ow \in 0..MaxFactor, nw \in 0..MaxFactor :
          fn_in = [fn |-> "interpolate_weights",
                   old_params |-> NetInit(so), new_params |-> NetInit(MaxSeed + sn),
                   keys |-> keys, old_weight |-> ow, new_weight |-> nw]
    /\ fn_out = NoCall

CallInterpolateWeights ==
    /\ fn_in.fn = "interpolate_weights"
    /\ fn_out = NoCall
    /\ fn_out' = [fn |-> "interpolate_weights",
                  result |-> interpolate_weights(fn_in.old_params, fn_in.new_params,
                                                 fn_in.keys, fn_in.old_weight,
                                                 fn_in.new_weight)]
    /\ UNCHANGED <<agent_vars, replay_vars, fn_in>>

NextInterp == CallInterpolateWeights

SpecInterp == InitInterp /\ [][NextInterp]_vars

\* ------------------------------- parameter sets whose group names differ
\* A parameter set with the given groups; every group other than _log_alpha is
\* a module with the given leaves.
NetShape(seed, groups, leaves) ==
    Dict([p \in {"params"} |->
        Dict([g \in groups |->
            IF g = "_log_alpha" THEN Leaf(seed * 16 + GroupIdx(g) * 2)
            ELSE Dict([l \in leaves |->
                        Leaf(seed * 16 + GroupIdx(g) * 2 + (IF l = "bias" THEN 1 ELSE 0))])])])

GroupSets == {Groups, Groups \ {"head"}, Groups \ {"encoder"}, Groups \cup {"projection"}}
LeafSets == {{"kernel", "bias"}, {"kernel"}}
CopyKeys == {keys_to_copy, {}}

InitMismatch ==
    /\ AgentInit(DefaultConfig, 1)
    /\ prefetcher = NoPrefetcher
    /\ \E og \in GroupSets, ol \in LeafSets, ng \in GroupSets, nl \in LeafSets :
          LET old == NetShape(1, og, ol)
              new == NetShape(2, ng, nl)
          IN \/ \E keys \in CopyKeys :
                  fn_in = [fn |-> "copy_params", source |-> old, target |-> new,
                           keys |-> keys]
             \/ \E keys \in {KeysNone, Keys({"encoder", "head"})} :
                  fn_in = [fn |-> "interpolate_weights",
                           old_params |-> old, new_params |-> new,
                           keys |-> keys, old_weight |-> 1, new_weight |-> 1]
    /\ fn_out = NoCall

CallCopyParams ==
    /\ fn_in.fn = "copy_params"
    /\ fn_out = NoCall
    /\ fn_out' = [fn |-> "copy_params",
                  result |-> copy_params(fn_in.source, fn_in.target, fn_in.keys)]
    /\ UNCHANGED <<agent_vars, replay_vars, fn_in>>

NextMismatch == CallCopyParams \/ CallInterpolateWeights

SpecMismatch == InitMismatch /\ [][NextMismatch]_vars

\* ------------------------------------------------ the replay settings
max(a, b) == IF a >= b THEN a ELSE b
min(a, b) == IF a <= b THEN a ELSE b

\* set_replay_settings: the update schedule computed from the constructor
\* arguments; ok is the assertion on the group size.
set_replay_settings(replay_ratio, n_envs, batch_size, batches_to_group) ==
    LET updates == max(1, (replay_ratio * n_envs) \div batch_size)
        period == max(1, (batch_size \div replay_ratio) * n_envs)
        group == min(batches_to_group, updates)
    IN [num_updates_per_train_step |-> max(1, updates \div group),
        update_period |-> period,
        batches_to_group |-> group,
        ok |-> updates % group = 0]

\* The settings of an agent built with the given replay arguments.
ReplayConfig(c, replay_ratio, n_envs, batch_size, batches_to_group, min_replay_history) ==
    LET s == set_replay_settings(replay_ratio, n_envs, batch_size, batches_to_group)
    IN [c EXCEPT !.n_envs = n_envs,
                 !.batch_size = batch_size,
                 !.batches_to_group = s.batches_to_group,
                 !.num_updates_per_train_step = s.num_updates_per_train_step,
                 !.update_period = s.update_period,
                 !.min_replay_history = min_replay_history]

\* ------------------------------------------------- filling the replay store
\* Runs without resets in which the replay store is filled by one or by
\* several additions between two steps, for one or several environments.
InitWarmup ==
    /\ \E n_envs \in 1..MaxEnvs, min_replay_history \in 1..MaxHistory :
          AgentInit(ReplayConfig(DefaultConfig, 1, n_envs, 1, 1, min_replay_history), 1)
    /\ prefetcher = NoPrefetcher
    /\ fn_in = NoCall
    /\ fn_out = NoCall

\* The additions to the replay store between two calls of step().
AddTransitions ==
    /\ pc = "idle"
    /\ training_steps < MaxSteps
    /\ \E n \in 1..MaxAdd : add_count' = add_count + n
    /\ pc' = "train"
    /\ UNCHANGED <<fn_vars, cfg, training_steps, reset_vars, grad_steps, cycle_grad_steps,
                   params_vars, replay_vars, i>>

NextWarmup ==
    \/ AddTransitions
    \/ TrainStepBegin
    \/ TrainingStepUpdate
    \/ NoReset
    \/ TrainStepEnd

SpecWarmup == InitWarmup /\ [][NextWarmup]_vars

\* ------------------------------------------------- grouped training updates
\* Runs of the agent for the replay ratios, batch sizes and group sizes that
\* pass the assertion of set_replay_settings, with and without resets.
InitGroup ==
    /\ \E c \in Configs, replay_ratio \in 1..MaxRatio, batch_size \in 1..MaxBatch,
          batches_to_group \in 1..MaxGroup :
          /\ c.reset_every # 0
          /\ c.reset_offset = 1
          /\ c.reset_target
          /\ c.shrink_perturb_keys = {}
          /\ c.reset_every > 0 => c.no_resets_after \in {3, MaxNoResetsAfter}
          /\ set_replay_settings(replay_ratio, 1, batch_size, batches_to_group).ok
          /\ AgentInit(ReplayConfig(c, replay_ratio, 1, batch_size, batches_to_group,
                                    c.min_replay_history), 1)
    /\ prefetcher = NoPrefetcher
    /\ fn_in = NoCall
    /\ fn_out = NoCall

SpecGroup == InitGroup /\ [][Next]_vars

\* ------------------------------------------------------- train on its own
\* A call of train over K sub-batches (fn_in, fn_out) next to K calls of train
\* over one sub-batch each, which carry the parameters, the optimizer state and
\* the step counter in online_params, target_network_params, optimizer_state
\* and grad_steps; i counts the single calls made.
InitTrain ==
    /\ \E K \in 1..MaxGroup, every \in 1..MaxEvery, tau \in 0..MaxFactor :
          cfg = [DefaultConfig EXCEPT !.batches_to_group = K,
                                      !.target_update_period = every,
                                      !.target_update_tau = tau]
    /\ training_steps = 0
    /\ cumulative_resets = 0
    /\ reset_log = <<>>
    /\ next_reset = cfg.reset_every + cfg.reset_offset
    /\ cycle_grad_steps = 0
    /\ \E so \in Seeds, st \in Seeds, start \in 0..MaxStart, batch \in 1..2 :
          /\ online_params = NetInit(so)
          /\ optimizer_state = OptimizerInit(NetInit(so))
          /\ target_network_params = NetInit(st)
          /\ random_params = NetInit(so)
          /\ grad_steps = start
          /\ fn_in = [fn |-> "train",
                      online_params |-> NetInit(so),
                      target_params |-> NetInit(st),
                      optimizer_state |-> OptimizerInit(NetInit(so)),
                      grads |-> [k \in 1..cfg.batches_to_group |-> Gradient(batch, k)],
                      step |-> start]
    /\ add_count = 0
    /\ replay_elements = 0
    /\ delivered = <<>>
    /\ priorities = 0
    /\ priority_values = <<>>
    /\ priority_indices = <<>>
    /\ train_log = <<>>
    /\ pc = "idle"
    /\ i = 0
    /\ prefetcher = NoPrefetcher
    /\ fn_out = NoCall

\* train over all the sub-batches at once.
CallTrain ==
    /\ fn_in.fn = "train"
    /\ fn_out = NoCall
    /\ fn_out' = [fn |-> "train",
                  result |-> train(fn_in.online_params, fn_in.target_params,
                                   fn_in.optimizer_state, fn_in.grads,
                                   cfg.target_update_tau, cfg.target_update_period,
                                   fn_in.step)]
    /\ UNCHANGED <<cfg, training_steps, reset_vars, grad_steps, cycle_grad_steps,
                   params_vars, add_count, replay_vars, pc, i, fn_in>>

\* train over the next sub-batch alone, from the state the previous call left.
SingleStep ==
    /\ fn_in.fn = "train"
    /\ i < cfg.batches_to_group
    /\ LET res == train(online_params, target_network_params, optimizer_state,
                        <<fn_in.grads[i + 1]>>, cfg.target_update_tau,
                        cfg.target_update_period, grad_steps)
       IN /\ online_params' = res.online_params
          /\ target_network_params' = res.target_params
          /\ optimizer_state' = res.optimizer_state
    /\ grad_steps' = grad_steps + 1
    /\ i' = i + 1
    /\ UNCHANGED <<cfg, training_steps, reset_vars, cycle_grad_steps, random_params,
                   add_count, replay_vars, pc, fn_vars>>

NextTrain ==
    \/ CallTrain
    \/ SingleStep

SpecTrain == InitTrain /\ [][NextTrain]_vars

\* ---------------------------------- exponential_decay_scheduler on its own
\* The values a caller hands over: exp(-n) without reverse, 1 - exp(-n) with
\* reverse, so that the value the schedule takes the logarithm of is exp(-n).
ScheduleValues(reverse) ==
    {IF reverse THEN OneMinus(Exp(-n, 1)) ELSE Exp(-n, 1) : n \in 0..MaxLog}

InitSched ==
    /\ AgentInit(DefaultConfig, 1)
    /\ prefetcher = NoPrefetcher
    /\ \E decay_period \in 0..MaxDecay, warmup_steps \in 0..MaxWarmup, reverse \in BOOLEAN,
          step \in 0..(MaxDecay + MaxWarmup + 1) :
          \E initial_value \in ScheduleValues(reverse), final_value \in ScheduleValues(reverse) :
             fn_in = [fn |-> "exponential_decay_scheduler",
                      decay_period |-> decay_period, warmup_steps |-> warmup_steps,
                      initial_value |-> initial_value, final_value |-> final_value,
                      reverse |-> reverse, step |-> step]
    /\ fn_out = NoCall

\* The schedule is built and called at one step.
CallScheduler ==
    /\ fn_in.fn = "exponential_decay_scheduler"
    /\ fn_out = NoCall
    /\ fn_out' = [fn |-> "exponential_decay_scheduler",
                  result |-> exponential_decay_scheduler(
                                 fn_in.decay_period, fn_in.warmup_steps,
                                 fn_in.initial_value, fn_in.final_value,
                                 fn_in.reverse, fn_in.step)]
    /\ UNCHANGED <<agent_vars, replay_vars, fn_in>>

NextSched == CallScheduler

SpecSched == InitSched /\ [][NextSched]_vars

\* ------------------------- project_distribution and target_output on their own
\* Strictly increasing, equally spaced supports of 2..MaxAtoms atoms.
Supports ==
    {[j \in 1..n |-> v_min + (j - 1) * dz] :
        n \in 2..MaxAtoms, dz \in 1..MaxDz, v_min \in -1..0}

\* Normalized weight vectors of n entries: whole numbers of mass adding up to
\* MaxWeight.
WeightVectors(n) == {w \in [1..n -> 0..MaxWeight] : SumSeq(w) = MaxWeight}

\* The calls explored: project_distribution with up to MaxPoints source points
\* anywhere in -MaxSrc..MaxSrc, project_distribution with the target support
\* itself as source points, and target_output on the support (-1, 0, 1) with
\* two actions.
InitProject ==
    /\ AgentInit(DefaultConfig, 1)
    /\ prefetcher = NoPrefetcher
    /\ \/ \E ts \in Supports, m \in 1..MaxPoints :
            \E su \in [1..m -> -MaxSrc..MaxSrc], w \in WeightVectors(m) :
               fn_in = [fn |-> "project_distribution", supports |-> su,
                        weights |-> w, target_support |-> ts]
       \/ \E ts \in Supports :
            \E w \in [1..Len(ts) -> 0..MaxWeight] :
               fn_in = [fn |-> "project_distribution", supports |-> ts,
                        weights |-> w, target_support |-> ts]
       \/ \E p1 \in WeightVectors(3), p2 \in WeightVectors(3), a \in 1..2,
             r \in -1..1, t \in 0..1, g \in 9..10 :
               fn_in = [fn |-> "target_output", probabilities |-> <<p1, p2>>,
                        next_qt_argmax |-> a, rewards |-> r, terminals |-> t,
                        support |-> <<-1, 0, 1>>,
                        cumulative_gamma |-> [num |-> g, den |-> 10]]
    /\ fn_out = NoCall

CallProjectDistribution ==
    /\ fn_in.fn = "project_distribution"
    /\ fn_out = NoCall
    /\ fn_out' = [fn |-> "project_distribution",
                  result |-> project_distribution(fn_in.supports, fn_in.weights,
                                                  fn_in.target_support)]
    /\ UNCHANGED <<agent_vars, replay_vars, fn_in>>

CallTargetOutput ==
    /\ fn_in.fn = "target_output"
    /\ fn_out = NoCall
    /\ fn_out' = [fn |-> "target_output",
                  target_support |-> shifted_support(fn_in.rewards, fn_in.terminals,
                                                     fn_in.support, fn_in.cumulative_gamma),
                  result |-> target_output(fn_in.probabilities, fn_in.next_qt_argmax,
                                           fn_in.rewards, fn_in.terminals,
                                           fn_in.support, fn_in.cumulative_gamma)]
    /\ UNCHANGED <<agent_vars, replay_vars, fn_in>>

NextProject ==
    \/ CallProjectDistribution
    \/ CallTargetOutput

SpecProject == InitProject /\ [][NextProject]_vars

\* -------------------------------------------- BBFAgent.select_action on its own
Actions == 1..MaxActions

\* The agent after training_steps steps selects actions for MaxEnvs
\* observations; the policy head's logits, its samples and the uniform draw are
\* inputs of the call.
InitSelect ==
    /\ cfg = DefaultConfig
    /\ training_steps \in 0..(DefaultConfig.min_replay_history + 1)
    /\ cumulative_resets = 0
    /\ reset_log = <<>>
    /\ next_reset = cfg.reset_every + cfg.reset_offset
    /\ grad_steps = 0
    /\ cycle_grad_steps = 0
    /\ online_params = NetInit(1)
    /\ optimizer_state = OptimizerInit(NetInit(1))
    /\ target_network_params = NetInit(1)
    /\ random_params = NetInit(1)
    /\ add_count = 0
    /\ replay_elements = 0
    /\ delivered = <<>>
    /\ priorities = 0
    /\ priority_values = <<>>
    /\ priority_indices = <<>>
    /\ train_log = <<>>
    /\ pc = "idle"
    /\ i = 0
    /\ prefetcher = NoPrefetcher
    /\ \E eval_mode \in BOOLEAN,
          logits \in [1..MaxEnvs -> [Actions -> 0..1]],
          samples \in [1..MaxEnvs -> Actions],
          randint \in [1..MaxEnvs -> Actions] :
          fn_in = [fn |-> "select_action", eval_mode |-> eval_mode, logits |-> logits,
                   samples |-> samples, randint |-> randint]
    /\ fn_out = NoCall

CallSelectAction ==
    /\ fn_in.fn = "select_action"
    /\ fn_out = NoCall
    /\ fn_out' = [fn |-> "select_action",
                  action |-> BBFAgent_select_action(fn_in.eval_mode, training_steps,
                                                    cfg.min_replay_history, fn_in.randint,
                                                    fn_in.logits, fn_in.samples)]
    /\ UNCHANGED <<agent_vars, replay_vars, fn_in>>

NextSelect == CallSelectAction

SpecSelect == InitSelect /\ [][NextSelect]_vars

\* ------------------------------------------------------ the SPR loss on its own
InitSpr ==
    /\ AgentInit(DefaultConfig, 1)
    /\ prefetcher = NoPrefetcher
    /\ \E jumps \in 1..MaxJumps :
          \E spr_error \in [1..jumps -> 0..MaxDist],
             same_traj_mask \in [1..(jumps + 1) -> 0..1] :
             fn_in = [fn |-> "spr_loss", spr_error |-> spr_error,
                      same_traj_mask |-> same_traj_mask]
    /\ fn_out = NoCall

CallSprLoss ==
    /\ fn_in.fn = "spr_loss"
    /\ fn_out = NoCall
    /\ fn_out' = [fn |-> "spr_loss",
                  result |-> spr_loss(fn_in.spr_error, fn_in.same_traj_mask)]
    /\ UNCHANGED <<agent_vars, replay_vars, fn_in>>

NextSpr == CallSprLoss

SpecSpr == InitSpr /\ [][NextSpr]_vars

\* ------------------------------------------------------------ properties
\* _train_step stands at its reset check and the check calls reset_weights.
ResetRequested ==
    /\ pc = "update"
    /\ ~InUpdateLoop
    /\ cfg.reset_every > 0
    /\ training_steps > next_reset

\* The reset check called reset_weights and it went through to jit_reset.
ResetIsApplied ==
    /\ ResetRequested
    /\ ~(cfg.reset_every + training_steps > cfg.no_resets_after + cfg.reset_offset)

\* The reset check called reset_weights and it returned early.
ResetIsSkipped ==
    /\ ResetRequested
    /\ cfg.reset_every + training_steps > cfg.no_resets_after + cfg.reset_offset

Group(params, g) == params.items["params"].items[g]

\* A state right after a reset was applied to weights that had been trained.
JustReset == pc = "end" /\ cycle_grad_steps = 0 /\ grad_steps > 0

\* C1: a reset requested when training_steps + reset_every + reset_offset >
\* no_resets_after + reset_offset leaves the online parameters, the target
\* parameters and the optimizer state unchanged and does not reset
\* cycle_grad_steps.
C1_Claim ==
    [][(ResetRequested /\ training_steps + cfg.reset_every + cfg.reset_offset
                            > cfg.no_resets_after + cfg.reset_offset)
        => UNCHANGED <<online_params, target_network_params, optimizer_state,
                       cycle_grad_steps>>]_vars

\* C2: a skipped reset advances no reset counter: cumulative_resets and
\* next_reset are the same after reset_weights returns as before the call.
C2_Claim ==
    [][ResetIsSkipped => UNCHANGED <<cumulative_resets, next_reset>>]_vars

\* C3: after an applied reset every online group in keys_to_copy has its
\* pre-reset value (shrink-and-perturbed against the fresh initialization if it
\* is also in shrink_perturb_keys) and every other online group equals the
\* freshly drawn initialization.
C3_Theorem ==
    [][ResetIsApplied =>
        \A g \in Groups :
            Group(online_params', g) =
                IF g \in {"encoder", "transition_model", "_log_alpha"}
                THEN IF g \in cfg.shrink_perturb_keys
                     THEN TreeMap2(Group(online_params, g), Group(random_params', g),
                                   cfg.shrink_factor, cfg.perturb_factor)
                     ELSE Group(online_params, g)
                ELSE Group(random_params', g)]_vars

C3_Witness ==
    /\ JustReset
    /\ cfg.shrink_perturb_keys # {}
    /\ cfg.shrink_factor = 1 /\ cfg.perturb_factor = 1
    /\ Group(online_params, "head") = Group(random_params, "head")
    /\ Group(online_params, "encoder") # Group(random_params, "encoder")

\* C4: after an applied reset the optimizer's accumulator of every group in
\* keys_to_copy is the one of the pre-reset optimizer state, and the
\* accumulator of every other group is the freshly initialized one.
C4_Claim ==
    [][ResetIsApplied =>
        \A g \in ModuleGroups :
            Moment(optimizer_state', g) =
                IF g \in {"encoder", "transition_model", "_log_alpha"}
                THEN Moment(optimizer_state, g)
                ELSE Moment(OptimizerInit(online_params'), g)]_vars

\* C5: an applied reset sets cycle_grad_steps to zero, raises cumulative_resets
\* by one and sets next_reset to training_steps + reset_every; it changes
\* neither grad_steps nor training_steps.
C5_Theorem ==
    [][ResetIsApplied =>
        /\ cycle_grad_steps' = 0
        /\ cumulative_resets' = cumulative_resets + 1
        /\ next_reset' = training_steps + cfg.reset_every
        /\ grad_steps' = grad_steps
        /\ training_steps' = training_steps]_vars

C5_Witness ==
    /\ JustReset
    /\ cumulative_resets = 2
    /\ next_reset = training_steps + cfg.reset_every

\* C6: a step of _train_step invokes the reset engine (reset_weights counts
\* the call in cumulative_resets) exactly when it stands at the reset check
\* with reset_every > 0 and training_steps > next_reset; with reset_every <= 0
\* the engine never runs, so cumulative_resets and next_reset keep their
\* initial values and cycle_grad_steps is never set back.
C6_Theorem ==
    /\ [][(cumulative_resets' # cumulative_resets)
            <=> (pc = "update" /\ ~InUpdateLoop
                 /\ cfg.reset_every > 0 /\ training_steps > next_reset)]_vars
    /\ [](cfg.reset_every <= 0 =>
            /\ cumulative_resets = 0
            /\ next_reset = cfg.reset_every + cfg.reset_offset
            /\ cycle_grad_steps = grad_steps)

C6_Witness ==
    /\ pc = "end"
    /\ cumulative_resets = 1
    /\ next_reset = training_steps + cfg.reset_every
    /\ training_steps = cfg.reset_every + cfg.reset_offset + 1

\* C7: an applied reset with reset_target set treats the target parameters as
\* the online ones (keys_to_copy groups kept, shrink-and-perturbed if listed,
\* every other group fresh) against an initialization drawn from the second
\* half of the split key, which differs from the online initialization; with
\* reset_target unset it leaves the target parameters as they were.
C7_Theorem ==
    [][ResetIsApplied =>
        IF cfg.reset_target
        THEN \E rng \in Seeds :
               /\ random_params' = NetInit(2 * rng)
               /\ NetInit(2 * rng + 1) # random_params'
               /\ \A g \in Groups :
                    Group(target_network_params', g) =
                        IF g \in {"encoder", "transition_model", "_log_alpha"}
                        THEN IF g \in cfg.shrink_perturb_keys
                             THEN TreeMap2(Group(target_network_params, g),
                                           Group(NetInit(2 * rng + 1), g),
                                           cfg.shrink_factor, cfg.perturb_factor)
                             ELSE Group(target_network_params, g)
                        ELSE Group(NetInit(2 * rng + 1), g)
        ELSE target_network_params' = target_network_params]_vars

C7_Witness ==
    /\ JustReset
    /\ cfg.reset_target
    /\ Group(target_network_params, "head") # Group(random_params, "head")
    /\ Group(target_network_params, "head") # Group(online_params, "head")

\* The value of leaf l of group g (of the group itself when it is an array).
LeafVal(params, g, l) ==
    IF Group(params, g).kind = "leaf" THEN Group(params, g).val
    ELSE Group(params, g).items[l].val
LeavesOf(g) == IF g \in ModuleGroups THEN {"kernel", "bias"} ELSE {"value"}

\* C8: interpolate_weights returns old_weight * old + new_weight * new at every
\* leaf of every group named in keys (of every group when keys is None) and the
\* old value for every other group; so weights (1, 0) give back the old groups
\* and weights (0, 1) the new ones.
C8_Theorem ==
    fn_out.fn = "interpolate_weights" =>
        LET ks == IF fn_in.keys.none THEN Groups ELSE fn_in.keys.keys
            out == fn_out.result
        IN /\ DOMAIN out.items["params"].items = Groups
           /\ \A g \in Groups : \A l \in LeavesOf(g) :
                LeafVal(out, g, l) =
                    IF g \in ks
                    THEN fn_in.old_weight * LeafVal(fn_in.old_params, g, l)
                         + fn_in.new_weight * LeafVal(fn_in.new_params, g, l)
                    ELSE LeafVal(fn_in.old_params, g, l)
           /\ (fn_in.old_weight = 1 /\ fn_in.new_weight = 0) => out = fn_in.old_params
           /\ (fn_in.old_weight = 0 /\ fn_in.new_weight = 1) =>
                \A g \in ks : Group(out, g) = Group(fn_in.new_params, g)

C8_Witness ==
    /\ fn_out.fn = "interpolate_weights"
    /\ fn_in.keys = Keys({"encoder", "head"})
    /\ fn_in.old_weight = 1 /\ fn_in.new_weight = 1
    /\ Group(fn_out.result, "encoder") # Group(fn_in.old_params, "encoder")
    /\ Group(fn_out.result, "policy") = Group(fn_in.old_params, "policy")

\* C9: the online, the target and the stored random parameter sets have the
\* same key structure in every reachable state.
C9_Theorem ==
    /\ KeyPaths(online_params) = KeyPaths(target_network_params)
    /\ KeyPaths(online_params) = KeyPaths(random_params)
    /\ <<"params", "head", "kernel">> \in KeyPaths(online_params)

C9_Witness ==
    /\ JustReset
    /\ cfg.shrink_perturb_keys # {}
    /\ cfg.reset_target
    /\ cumulative_resets = 2

\* C10: the prefetcher of size 2 over the endless sampler holds 2 batches when
\* it delivers its first one, never holds more than 2, and while it is
\* suspended between deliveries it has drawn exactly one batch more than it
\* has delivered (one draw per batch consumed).
C10_Theorem ==
    (prefetcher.size = PrefetchSize /\ prefetcher.src.left = Unbounded) =>
        /\ Len(prefetcher.queue) <= 2
        /\ (prefetcher.pc = "test" /\ delivered = <<>>) => Len(prefetcher.queue) = 2
        /\ prefetcher.pc = "yield" =>
              /\ prefetcher.src.next - 1 = Len(delivered) + 1
              /\ Len(prefetcher.queue) = 1

C10_Witness ==
    /\ prefetcher.size = PrefetchSize
    /\ prefetcher.src.left = Unbounded
    /\ prefetcher.pc = "yield"
    /\ Len(delivered) = 3

\* C11: a gradient step replaces every group of the target parameters by
\* (1 - tau) * target + tau * online, online being the parameters after the
\* step's optimizer update, when its step counter is a multiple of
\* target_update_every, and leaves the target parameters unchanged otherwise.
C11_Theorem ==
    [][i' = i + 1 =>
        IF grad_steps % cfg.target_update_period = 0
        THEN \A g \in Groups :
                Group(target_network_params', g) =
                    TreeMap2(Group(target_network_params, g), Group(online_params', g),
                             1 - cfg.target_update_tau, cfg.target_update_tau)
        ELSE target_network_params' = target_network_params]_vars

C11_Witness ==
    /\ fn_in.fn = "train"
    /\ i = 2
    /\ fn_in.step = 0
    /\ cfg.target_update_period = 2
    /\ cfg.target_update_tau = 1
    /\ target_network_params # fn_in.target_params
    /\ target_network_params # online_params

C13_Theorem ==
    \A k \in DOMAIN priority_values : priority_values[k] > 0

C13_Witness ==
    /\ pc = "end"
    /\ priority_values # <<>>
    /\ DQNLoss(priorities, 1) = 0
    /\ priority_values[1] = 1

\* C14: with decay_period > 0 the schedule returns the caller's initial_value
\* at every step <= warmup_steps and the caller's final_value at every step >=
\* warmup_steps + decay_period, without reverse and with it.
C14_Theorem ==
    (fn_out.fn = "exponential_decay_scheduler" /\ fn_in.decay_period > 0) =>
        /\ fn_in.step <= fn_in.warmup_steps => fn_out.result = fn_in.initial_value
        /\ fn_in.step >= fn_in.warmup_steps + fn_in.decay_period =>
              fn_out.result = fn_in.final_value

C14_Witness ==
    /\ fn_out.fn = "exponential_decay_scheduler"
    /\ fn_in.reverse
    /\ fn_in.decay_period = 2 /\ fn_in.warmup_steps = 1 /\ fn_in.step = 3
    /\ fn_in.initial_value # fn_in.final_value
    /\ fn_out.result = fn_in.final_value

\* C15: with decay_period = 0 the schedule returns the caller's initial_value
\* before warmup_steps and the caller's final_value from warmup_steps on,
\* whatever reverse is.
C15_Claim ==
    (fn_out.fn = "exponential_decay_scheduler" /\ fn_in.decay_period = 0) =>
        fn_out.result = IF fn_in.step < fn_in.warmup_steps
                        THEN fn_in.initial_value ELSE fn_in.final_value

\* C16: at every step, for every decay_period and warmup_steps, the schedule
\* built with reverse from a to b returns 1 minus what the schedule built
\* without reverse from 1 - a to 1 - b returns.
C16_Claim ==
    (fn_out.fn = "exponential_decay_scheduler" /\ fn_in.reverse) =>
        fn_out.result =
            OneMinus(exponential_decay_scheduler(
                         fn_in.decay_period, fn_in.warmup_steps,
                         OneMinus(fn_in.initial_value), OneMinus(fn_in.final_value),
                         FALSE, fn_in.step))

\* C17: for normalized weights, any source points (also outside [v_min,
\* v_max]) and a strictly increasing equally spaced target_support of at
\* least 2 atoms, the projection is non-negative at every atom and sums to 1
\* (its numerators add up to the weights' total mass times the denominator).
C17_Theorem ==
    fn_out.fn = "project_distribution" =>
        /\ fn_out.result.den > 0
        /\ \A n \in DOMAIN fn_out.result.num : fn_out.result.num[n] >= 0
        /\ SumSeq(fn_out.result.num) = SumSeq(fn_in.weights) * fn_out.result.den

C17_Witness ==
    /\ fn_out.fn = "project_distribution"
    /\ fn_in.target_support = <<0, 2, 4>>
    /\ fn_in.supports = <<-3, 1>>
    /\ fn_in.weights = <<1, 1>>
    /\ fn_out.result = [num |-> <<6, 2, 0>>, den |-> 4]

\* C18: project_distribution with supports equal to target_support returns
\* the weights unchanged, whatever the weights.
C18_Theorem ==
    (fn_out.fn = "project_distribution" /\ fn_in.supports = fn_in.target_support) =>
        \A n \in DOMAIN fn_in.weights :
            fn_out.result.num[n] = fn_in.weights[n] * fn_out.result.den

C18_Witness ==
    /\ fn_out.fn = "project_distribution"
    /\ fn_in.supports = fn_in.target_support
    /\ fn_in.target_support = <<-1, 1, 3>>
    /\ fn_in.weights = <<1, 2, 0>>
    /\ fn_out.result = [num |-> <<4, 8, 0>>, den |-> 4]

\* C19: target_output projects the distribution of the selected next action
\* from the shifted support reward + cumulative_gamma * (1 - terminal) *
\* Support; for reward 1, discount 0.9, a non-terminal transition and Support
\* (-1, 0, 1) the shifted support is (0.1, 1.0, 1.9) and the result for the
\* probabilities (p0, p1, p2) is (0, 0.9 p0, 0.1 p0 + p1 + p2); for a terminal
\* transition the shifted support is the reward at every atom.
C19_Theorem ==
    fn_out.fn = "target_output" =>
        LET p == fn_in.probabilities[fn_in.next_qt_argmax]
            out == fn_out.result
            g == fn_in.cumulative_gamma
        IN /\ \A j \in 1..3 :
                 fn_out.target_support[j] =
                     fn_in.rewards * g.den
                         + g.num * (1 - fn_in.terminals) * fn_in.support[j]
           /\ out = project_distribution(fn_out.target_support, p,
                                         [j \in 1..3 |-> fn_in.support[j] * g.den])
           /\ (fn_in.rewards = 1 /\ g.num = 9 /\ fn_in.terminals = 0) =>
                 /\ fn_out.target_support = <<1, 10, 19>>
                 /\ out.num[1] = 0
                 /\ out.num[2] * 10 = 9 * p[1] * out.den
                 /\ out.num[3] * 10 = (p[1] + 10 * p[2] + 10 * p[3]) * out.den
           /\ fn_in.terminals = 1 =>
                 \A j \in 1..3 : fn_out.target_support[j] = fn_in.rewards * g.den

C19_Witness ==
    /\ fn_out.fn = "target_output"
    /\ fn_in.rewards = 1 /\ fn_in.cumulative_gamma.num = 9 /\ fn_in.terminals = 0
    /\ fn_in.next_qt_argmax = 2
    /\ fn_in.probabilities[2] = <<1, 1, 0>>
    /\ fn_in.probabilities[1] = <<0, 0, 2>>
    /\ fn_out.result = [num |-> <<0, 18, 22>>, den |-> 20]

\* C20: during training and before min_replay_history steps the selected
\* actions are the uniform draw; afterwards they are the policy head's samples,
\* except that in evaluation mode they are the arg-max of the policy logits for
\* every observation.
C20_Claim ==
    fn_out.fn = "select_action" =>
        fn_out.action =
            IF ~fn_in.eval_mode /\ training_steps < cfg.min_replay_history
            THEN fn_in.randint
            ELSE IF fn_in.eval_mode
                 THEN [n \in 1..MaxEnvs |-> argmax(fn_in.logits[n])]
                 ELSE fn_in.samples

\* C21: the SPR loss of a transition is one half of the average of the squared
\* latent distances over the time steps whose same_trajectory flag is true:
\* the steps whose flag is false add nothing to the sum and are not counted in
\* the number the sum is divided by.
C21_Claim ==
    fn_out.fn = "spr_loss" =>
        LET mask == Tail(fn_in.same_traj_mask)
            valid == {t \in 1..Len(fn_in.spr_error) : mask[t] = 1}
            total == SumSeq([t \in 1..Len(fn_in.spr_error) |->
                                IF t \in valid THEN fn_in.spr_error[t] ELSE 0])
        IN valid # {} =>
              fn_out.result.num * (2 * Cardinality(valid)) = total * fn_out.result.den

\* C22: copy_params and interpolate_weights raise, and so return no result,
\* whenever one of the two parameter trees has a group name at some level that
\* the other tree lacks, whichever of the two trees has the extra name.
C22_Claim ==
    /\ fn_out.fn = "copy_params" =>
          (KeyPaths(fn_in.source) # KeyPaths(fn_in.target) => IsErr(fn_out.result))
    /\ fn_out.fn = "interpolate_weights" =>
          (KeyPaths(fn_in.old_params) # KeyPaths(fn_in.new_params) => IsErr(fn_out.result))

\* C23: once reset_weights has skipped a triggered reset for lack of recovery
\* budget, it skips every later triggered reset of the run: no reset is
\* applied after a skipped one.
C23_Theorem ==
    \A a \in 1..Len(reset_log), b \in 1..Len(reset_log) :
        (a < b /\ ~reset_log[a].applied) => ~reset_log[b].applied

C23_Witness ==
    /\ Len(reset_log) = 3
    /\ reset_log[1].applied
    /\ ~reset_log[2].applied
    /\ ~reset_log[3].applied

C25_Claim ==
    (pc = "update" /\ InUpdateLoop) => prefetcher.pc # "none"

\* C26: a training update writes the priorities to the replay indices of the
\* batch it has just trained on, not of the batch it prefetched meanwhile, and
\* writes exactly one priority for each replay index of that batch, for every
\* batches_to_group >= 1 and batch_size >= 1.
C26_Claim ==
    priority_indices # <<>> =>
        LET trained == delivered[Len(delivered) - 1]
        IN /\ \A j \in DOMAIN priority_indices : priority_indices[j][1] = trained
           /\ \A j \in DOMAIN priority_indices, k \in DOMAIN priority_indices :
                 j # k => priority_indices[j] # priority_indices[k]
           /\ Len(priority_indices) = cfg.batch_size * cfg.batches_to_group
           /\ Len(priority_values) = Len(priority_indices)

\* C27: 0 <= cycle_grad_steps <= grad_steps in every state, grad_steps never
\* decreases, a training update adds exactly batches_to_group to both counters,
\* and the step counter handed to a call of train is the final per-sub-batch
\* step counter of the call before it (0 for the first call): train makes one
\* increment per sub-batch, the sub-batches number batches_to_group, and the
\* sampled group is a whole number of batches of batch_size.
C27_Theorem ==
    /\ [](/\ 0 <= cycle_grad_steps
          /\ cycle_grad_steps <= grad_steps
          /\ \A k \in DOMAIN train_log :
                /\ train_log[k].step = IF k = 1 THEN 0 ELSE train_log[k - 1].final
                /\ train_log[k].final = train_log[k].step + train_log[k].num_batches
                /\ train_log[k].num_batches = cfg.batches_to_group
                /\ train_log[k].sampled = train_log[k].num_batches * cfg.batch_size
          /\ train_log # <<>> => grad_steps = train_log[Len(train_log)].final)
    /\ [][/\ grad_steps' >= grad_steps
          /\ train_log' # train_log =>
                /\ grad_steps' = grad_steps + cfg.batches_to_group
                /\ cycle_grad_steps' = cycle_grad_steps + cfg.batches_to_group]_vars

C27_Witness ==
    /\ cfg.batches_to_group = 2
    /\ cfg.batch_size = 2
    /\ Len(train_log) >= 3
    /\ 0 < cycle_grad_steps
    /\ cycle_grad_steps < grad_steps

\* C28: prefetch_to_device yields the elements of its source in the source's
\* order, none dropped and none duplicated, for every queue size >= 1; over a
\* source of n elements it yields exactly n elements and then terminates, also
\* when n is smaller than the queue size.
C28_Theorem ==
    prefetcher.pc # "none" =>
        LET drawn == prefetcher.src.next - 1
            finite == prefetcher.src.left # Unbounded
            n == drawn + prefetcher.src.left
        IN /\ delivered = [k \in 1..Len(delivered) |-> k]
           /\ delivered \o prefetcher.queue = [k \in 1..drawn |-> k]
           /\ finite => Len(delivered) <= n
           /\ (finite /\ prefetcher.pc = "done") => Len(delivered) = n
           /\ (finite /\ prefetcher.pc \in {"new", "yield"} /\ Len(delivered) = n) =>
                 GenNext(prefetcher).pc = "done"
           /\ (prefetcher.pc \in {"new", "yield"} /\ (finite => Len(delivered) < n)) =>
                 /\ GenNext(prefetcher).pc = "yield"
                 /\ GenNext(prefetcher).out = Len(delivered) + 1

C28_Witness ==
    /\ prefetcher.pc = "done"
    /\ prefetcher.size = 3
    /\ delivered = <<1, 2>>

====
